---------------------------- MODULE Spec2Model ----------------------------
(***************************************************************************)
(* A model of the monochord tuning library (src/src/lib.rs and             *)
(* src/src/tuning.rs): the Hz and Cents value types, the four Tuning       *)
(* implementations (Edo, EqualSteps, CyclicTuning, MidiTuning) and the     *)
(* library's call surface.                                                 *)
(*                                                                         *)
(* Arithmetic is exact.  A Cents value is an integer number of cents.  A   *)
(* Hz value is kept by its logarithm: the integer h stands for the         *)
(* frequency 440 * 2^(h / 1200) Hz, so that adding an interval to a        *)
(* frequency (a multiplication by 2^(c / 1200) in lib.rs) is an addition   *)
(* and the quotient of two frequencies taken as an interval                *)
(* (1200 * log2(a / b)) is a subtraction.                                  *)
(***************************************************************************)
EXTENDS Integers, Sequences, FiniteSets

VARIABLES tuning, result

vars == <<tuning, result>>

---------------------------------------------------------------------------
(* Bounds of the model *)

\* pitch is queried at the steps -MaxStep .. MaxStep, plus the edges of the
\* MIDI table.
MaxStep == 6

\* interval is queried between the steps -MaxIntervalStep .. MaxIntervalStep,
\* plus an octave of 12-EDO and the edges of the MIDI table.
MaxIntervalStep == 1

\* A CyclicTuning holds at most MaxLen steps.
MaxLen == 3

\* An Edo has a cardinality in 1 .. MaxCardinality that divides 1200.
MaxCardinality == 12

\* from_pitches is given up to MidiSize + MaxExtra frequencies.
MaxExtra == 2

---------------------------------------------------------------------------
(* Program constants *)

\* const A440: Hz = Hz(440.0): the origin of the logarithmic Hz scale.
A440 == 0

\* The number of entries of a MidiTuning's table.
MidiSize == 127

\* The MIDI note that carries A440 in MidiTuning::default().
DefaultRefKey == 69

\* Cents per octave.
Octave == 1200

\* The largest i32; the smallest is I32Min.
I32Max == 2147483647

I32Min == (0 - I32Max) - 1

---------------------------------------------------------------------------
(* Option<T> and a panic *)

Some(x) == [tag |-> "Some", val |-> x]

None == [tag |-> "None"]

Panic == [tag |-> "Panic"]

IsSome(o) == o.tag = "Some"

---------------------------------------------------------------------------
(* lib.rs: Hz and Cents *)

\* impl Add<Cents> for Hz: self.0 * (rhs.0 / 1200.0).exp2()
HzAddCents(hz, cents) == hz + cents

\* impl Div<Hz> for Hz: Cents::from_ratio(self.0 / rhs.0)
HzDivHz(self, rhs) == self - rhs

\* impl Add<Cents> for Cents
CentsAdd(a, b) == a + b

\* impl Sub<Cents> for Cents
CentsSub(a, b) == a - b

\* impl Mul<f32> for Cents, with an integral factor
CentsMul(a, n) == a * n

---------------------------------------------------------------------------
(* Rust's i32 division and remainder by a positive divisor.  Both truncate *)
(* toward zero; \div and % round toward minus infinity.                    *)

TruncDiv(a, b) ==
    IF a >= 0 \/ a % b = 0 THEN a \div b ELSE (a \div b) + 1

\* A remainder that is never negative, as in a language whose % floors
FlooredRem(a, b) == a % b

TruncRem(a, b) == a - b * TruncDiv(a, b)

---------------------------------------------------------------------------
(* tuning.rs: Edo *)

\* Edo::new
EdoNew(cardinality, reference) ==
    [kind |-> "Edo", cardinality |-> cardinality, reference |-> reference]

\* Edo::new_a440
EdoNewA440(cardinality) == EdoNew(cardinality, A440)

EdoReferencePitch(t) == t.reference

\* 1200.0 / self.cardinality as f32, exact when the cardinality divides 1200
EdoStepSize(t) == Octave \div t.cardinality

EdoPitch(t, step) ==
    LET int == CentsMul(EdoStepSize(t), step)
    IN  Some(HzAddCents(t.reference, int))

\* The override of Tuning::interval
EdoInterval(t, from, to) ==
    LET delta == to - from
    IN  Some(EdoStepSize(t) * delta)

---------------------------------------------------------------------------
(* tuning.rs: EqualSteps *)

\* EqualSteps::new
EqualStepsNew(step, reference) ==
    [kind |-> "EqualSteps", step |-> step, reference |-> reference]

\* EqualSteps::new_a440
EqualStepsNewA440(step) == EqualStepsNew(step, A440)

EqualStepsReferencePitch(t) == t.reference

EqualStepsPitch(t, step) ==
    LET int == CentsMul(t.step, step)
    IN  Some(HzAddCents(t.reference, int))

---------------------------------------------------------------------------
(* tuning.rs: CyclicTuning *)

\* CyclicTuning::from_cents
CyclicFromCents(steps, reference) ==
    [kind |-> "Cyclic", steps |-> steps, reference |-> reference]

CyclicReferencePitch(t) == t.reference

\* self.steps[idx as usize] panics unless 0 <= idx < len; a negative idx
\* casts to a usize beyond every length.
InBounds(v, idx) == idx >= 0 /\ idx < Len(v)

\* An index that forgets the branch on the sign of rem
CyclicIndexUnsigned(len, rem) == rem - 1

\* The index pitch reads when rem # 0
CyclicIndex(len, rem) == IF rem > 0 THEN rem - 1 ELSE len + rem - 1

\* A step interval that forgets to take the period off below the reference
CyclicStepIntervalNoPeriod(steps, rem) ==
    steps[CyclicIndex(Len(steps), rem) + 1]

\* The interval `step` of pitch when rem # 0
CyclicStepInterval(steps, rem) ==
    LET len  == Len(steps)
        last == steps[len]
    IN  IF rem > 0
        THEN steps[CyclicIndex(len, rem) + 1]
        ELSE CentsSub(steps[CyclicIndex(len, rem) + 1], last)

CyclicPitch(t, step) ==
    IF Len(t.steps) = 0
    THEN Some(t.reference)
    ELSE LET len  == Len(t.steps)
             last == t.steps[len]
             rem  == TruncRem(step, len)
             div  == TruncDiv(step, len)
         IN  IF rem = 0
             THEN Some(HzAddCents(t.reference, CentsMul(last, div)))
             ELSE IF ~InBounds(t.steps, CyclicIndex(len, rem))
             THEN Panic
             ELSE Some(HzAddCents(t.reference,
                                  CentsAdd(CentsMul(last, div),
                                           CyclicStepInterval(t.steps, rem))))

---------------------------------------------------------------------------
(* tuning.rs: MidiTuning as a Tuning.  pitches is a Rust Vec, indexed from  *)
(* 0; the sequence that models it is indexed from 1.                        *)

\* A reference pitch read at the default reference key
MidiReferencePitchAtRefKey(t) == t.pitches[DefaultRefKey + 1]

MidiReferencePitch(t) == t.pitches[1]

\* A lookup whose upper bound is one short
MidiPitchShort(t, step) ==
    IF step < 0 THEN None
    ELSE IF step < Len(t.pitches) - 1 THEN Some(t.pitches[step + 1])
    ELSE None

MidiPitch(t, step) ==
    IF step < 0 THEN None
    ELSE IF step < Len(t.pitches) THEN Some(t.pitches[step + 1])
    ELSE None

---------------------------------------------------------------------------
(* tuning.rs: the Tuning trait, dispatched on the variant *)

ReferencePitch(t) ==
    CASE t.kind = "Edo"        -> EdoReferencePitch(t)
      [] t.kind = "EqualSteps" -> EqualStepsReferencePitch(t)
      [] t.kind = "Cyclic"     -> CyclicReferencePitch(t)
      [] t.kind = "Midi"       -> MidiReferencePitch(t)

Pitch(t, step) ==
    CASE t.kind = "Edo"        -> EdoPitch(t, step)
      [] t.kind = "EqualSteps" -> EqualStepsPitch(t, step)
      [] t.kind = "Cyclic"     -> CyclicPitch(t, step)
      [] t.kind = "Midi"       -> MidiPitch(t, step)

\* The provided Tuning::interval.  The source matches
\* (self.pitch(from), self.pitch(to)) against (Some(to), Some(from)) and
\* returns to / from: its `to` is pitch(from) and its `from` is pitch(to).
DefaultInterval(t, from, to) ==
    LET pFrom == Pitch(t, from)
        pTo   == Pitch(t, to)
    IN  IF pFrom = Panic \/ pTo = Panic THEN Panic
        ELSE IF IsSome(pFrom) /\ IsSome(pTo)
        THEN Some(HzDivHz(pFrom.val, pTo.val))
        ELSE None

Interval(t, from, to) ==
    IF t.kind = "Edo" THEN EdoInterval(t, from, to)
    ELSE DefaultInterval(t, from, to)

---------------------------------------------------------------------------
(* tuning.rs: the constructors of MidiTuning *)

Notes == 0 .. MidiSize - 1

\* A from_tuning that keeps the pitches it gets and skips the absent ones
MidiFromTuningPartial(t, refkey) ==
    LET samples == [k \in 1 .. MidiSize |-> Pitch(t, (k - 1) - refkey)]
        present == SelectSeq(samples, IsSome)
    IN  Some([kind |-> "Midi",
              pitches |-> [k \in 1 .. Len(present) |-> present[k].val]])

\* MidiTuning::from_tuning, for refkey < 127 (the assert!): the loop pushes
\* tuning.pitch(i - refkey) for i = 0, 1, ... and returns None at the first
\* absent one.
MidiFromTuning(t, refkey) ==
    LET samples == [i \in Notes |-> Pitch(t, i - refkey)]
        bad     == {i \in Notes : ~IsSome(samples[i])}
        first   == CHOOSE i \in bad : \A j \in bad : i <= j
    IN  IF bad = {}
        THEN Some([kind |-> "Midi",
                   pitches |-> [k \in 1 .. MidiSize |-> samples[k - 1].val]])
        ELSE IF samples[first] = Panic THEN Panic
        ELSE None

\* A from_pitches that keeps the whole slice
MidiFromPitchesWhole(hzs) ==
    IF Len(hzs) < MidiSize THEN None
    ELSE Some([kind |-> "Midi", pitches |-> hzs])

\* MidiTuning::from_pitches
MidiFromPitches(hzs) ==
    IF Len(hzs) < MidiSize THEN None
    ELSE Some([kind |-> "Midi", pitches |-> SubSeq(hzs, 1, MidiSize)])

\* A default that puts A440 at middle C, MIDI note 60
MidiDefaultMiddleC ==
    [kind |-> "Midi",
     pitches |-> [k \in 1 .. MidiSize |->
                     HzAddCents(A440, ((k - 1) - 60) * 100)]]

\* MidiTuning::default
MidiDefault ==
    [kind |-> "Midi",
     pitches |-> [k \in 1 .. MidiSize |->
                     HzAddCents(A440, ((k - 1) - DefaultRefKey) * 100)]]

---------------------------------------------------------------------------
(* The inputs the calls are made with *)

\* Reference pitches: 440 Hz and (to the cent) 330 Hz
References == {A440, A440 - 498}

\* u16 cardinalities; 0 is excluded by the documented precondition
Cardinalities == {n \in 1 .. MaxCardinality : Octave % n = 0}

\* Step sizes of an EqualSteps
StepSizes == {0 - 100, 0, 100, 702}

\* Step intervals of a CyclicTuning: 3:2 to the cent, and 2:1
CentsValues == {702, Octave}

StepLists == UNION {[1 .. n -> CentsValues] : n \in 0 .. MaxLen}

\* i32 steps pitch is queried at
StepInputs == (0 - MaxStep .. MaxStep) \cup {MidiSize - 1, MidiSize, MidiSize + 1}

\* i32 steps interval is queried between
IntervalInputs ==
    (0 - MaxIntervalStep .. MaxIntervalStep) \cup {12, MidiSize - 1, MidiSize}

\* u8 reference keys that pass assert!(refkey < 127)
RefKeys == {0, DefaultRefKey, MidiSize - 1}

\* Slices given to from_pitches
PitchLists ==
    {[k \in 1 .. n |-> b + d * (k - 1)] :
        n \in {0, MidiSize - 1} \cup (MidiSize .. MidiSize + MaxExtra),
        b \in References, d \in {0, 100}}

---------------------------------------------------------------------------
(* The state: the tuning value the caller holds, and the last call made    *)
(* with its arguments and what it returned.  A tuning has no mutation API: *)
(* the caller constructs one, queries it any number of times, may hand it  *)
(* to from_tuning, and drops it before constructing the next.              *)

NoTuning == [kind |-> "None"]

Call(op, args, value) == [op |-> op, args |-> args, value |-> value]

Init ==
    /\ tuning = NoTuning
    /\ result = Call("none", <<>>, None)

NewEdo ==
    \E c \in Cardinalities, r \in References :
        /\ tuning = NoTuning
        /\ tuning' = EdoNew(c, r)
        /\ result' = Call("Edo::new", <<c, r>>, Some(tuning'))

NewEdoA440 ==
    \E c \in Cardinalities :
        /\ tuning = NoTuning
        /\ tuning' = EdoNewA440(c)
        /\ result' = Call("Edo::new_a440", <<c>>, Some(tuning'))

NewEqualSteps ==
    \E c \in StepSizes, r \in References :
        /\ tuning = NoTuning
        /\ tuning' = EqualStepsNew(c, r)
        /\ result' = Call("EqualSteps::new", <<c, r>>, Some(tuning'))

NewEqualStepsA440 ==
    \E c \in StepSizes :
        /\ tuning = NoTuning
        /\ tuning' = EqualStepsNewA440(c)
        /\ result' = Call("EqualSteps::new_a440", <<c>>, Some(tuning'))

NewCyclicFromCents ==
    \E l \in StepLists, r \in References :
        /\ tuning = NoTuning
        /\ tuning' = CyclicFromCents(l, r)
        /\ result' = Call("CyclicTuning::from_cents", <<l, r>>, Some(tuning'))

\* from_tuning takes the tuning by value: the caller is left with what it
\* returns.
NewMidiFromTuning ==
    \E k \in RefKeys :
        /\ tuning # NoTuning
        /\ \E made \in {MidiFromTuning(tuning, k)} :
               /\ tuning' = IF IsSome(made) THEN made.val ELSE NoTuning
               /\ result' = Call("MidiTuning::from_tuning", <<tuning, k>>, made)

NewMidiFromPitches ==
    \E hzs \in PitchLists :
        \E made \in {MidiFromPitches(hzs)} :
            /\ tuning = NoTuning
            /\ tuning' = IF IsSome(made) THEN made.val ELSE NoTuning
            /\ result' = Call("MidiTuning::from_pitches", <<hzs>>, made)

NewMidiDefault ==
    /\ tuning = NoTuning
    /\ tuning' = MidiDefault
    /\ result' = Call("MidiTuning::default", <<>>, Some(tuning'))

CallReferencePitch ==
    /\ tuning # NoTuning
    /\ result' = Call("reference_pitch", <<>>, Some(ReferencePitch(tuning)))
    /\ UNCHANGED tuning

CallPitch ==
    \E step \in StepInputs :
        /\ tuning # NoTuning
        /\ result' = Call("pitch", <<step>>, Pitch(tuning, step))
        /\ UNCHANGED tuning

CallInterval ==
    \E from \in IntervalInputs, to \in IntervalInputs :
        /\ tuning # NoTuning
        /\ result' = Call("interval", <<from, to>>, Interval(tuning, from, to))
        /\ UNCHANGED tuning

\* The tuning goes out of scope.
Drop ==
    /\ tuning # NoTuning
    /\ tuning' = NoTuning
    /\ result' = Call("drop", <<>>, None)

Next ==
    \/ NewEdo
    \/ NewEdoA440
    \/ NewEqualSteps
    \/ NewEqualStepsA440
    \/ NewCyclicFromCents
    \/ NewMidiFromTuning
    \/ NewMidiFromPitches
    \/ NewMidiDefault
    \/ CallReferencePitch
    \/ CallPitch
    \/ CallInterval
    \/ Drop

Spec == Init /\ [][Next]_vars

---------------------------------------------------------------------------
(* Properties.  Each reads the last call off `result`: its arguments and   *)
(* what the code returned.                                                 *)

PitchOf(kind) == result.op = "pitch" /\ tuning.kind = kind

IntervalOf(kinds) == result.op = "interval" /\ tuning.kind \in kinds

\* The cents from the reference pitch of tuning up to hz
Offset(hz) == HzDivHz(hz, ReferencePitch(tuning))

\* C1: in a CyclicTuning with len > 0 steps and period p = the last step,
\* pitch(s + len) lies exactly p cents above pitch(s), for a step s of
\* either sign: offset(s + len) = offset(s) + p.
C1_Periodicity ==
    (PitchOf("Cyclic") /\ Len(tuning.steps) > 0) =>
        LET s    == result.args[1]
            len  == Len(tuning.steps)
            p    == tuning.steps[len]
            next == CyclicPitch(tuning, s + len)
        IN  /\ IsSome(result.value)
            /\ IsSome(next)
            /\ Offset(next.val) = Offset(result.value.val) + p

\* C1 witness: pitch was asked below the reference, within one cycle of it,
\* so that s + len lies above the reference.
C1_Witness ==
    /\ PitchOf("Cyclic")
    /\ Len(tuning.steps) = 3
    /\ result.args[1] = 0 - 2
    /\ IsSome(result.value)

\* C2: the provided interval(from, to) (EqualSteps, CyclicTuning,
\* MidiTuning) is the cents from pitch(from) up to pitch(to),
\* 1200 * log2(pitch(to) / pitch(from)); it is absent exactly when one of
\* the two pitches is; for an EqualSteps of step size c it is c * (to - from).
C2_DefaultInterval ==
    IntervalOf({"EqualSteps", "Cyclic", "Midi"}) =>
        LET from  == result.args[1]
            to    == result.args[2]
            pFrom == Pitch(tuning, from)
            pTo   == Pitch(tuning, to)
        IN  /\ IsSome(result.value) <=> (IsSome(pFrom) /\ IsSome(pTo))
            /\ ~IsSome(result.value) => result.value = None
            /\ IsSome(result.value) =>
                   result.value.val = HzDivHz(pTo.val, pFrom.val)
            /\ tuning.kind = "EqualSteps" =>
                   result.value = Some(tuning.step * (to - from))

\* C3: for an Edo of cardinality N > 0, the overridden interval(from, to),
\* (1200 / N) * (to - from) cents, agrees in value and sign with what the
\* provided interval yields on the same Edo's pitches; interval(s, s + N) is
\* 1200 cents under both.
C3_EdoIntervalAgrees ==
    IntervalOf({"Edo"}) =>
        LET from == result.args[1]
            to   == result.args[2]
        IN  /\ result.value = Some(EdoStepSize(tuning) * (to - from))
            /\ result.value = DefaultInterval(tuning, from, to)
            /\ to = from + tuning.cardinality =>
                   /\ result.value = Some(Octave)
                   /\ DefaultInterval(tuning, from, to) = Some(Octave)

\* C4: for every tuning of every variant, pitch(0) is present and is
\* reference_pitch().
C4_ReferenceIdentity ==
    (result.op = "pitch" /\ result.args[1] = 0) =>
        result.value = Some(ReferencePitch(tuning))

\* C4 witness: pitch(0) was asked of a MidiTuning whose table is not flat.
C4_Witness ==
    /\ PitchOf("Midi")
    /\ result.args[1] = 0
    /\ IsSome(result.value)
    /\ tuning.pitches[DefaultRefKey + 1] # tuning.pitches[1]

\* C5: every MidiTuning holds exactly 127 frequencies, and pitch(step) is
\* the table's entry at step when 0 <= step <= 126 and absent otherwise.
C5_MidiPitchBounds ==
    tuning.kind = "Midi" =>
        /\ Len(tuning.pitches) = 127
        /\ result.op = "pitch" =>
               LET step == result.args[1]
               IN  IF 0 <= step /\ step <= 126
                   THEN result.value = Some(tuning.pitches[step + 1])
                   ELSE result.value = None

\* C5 witness: the last note of the table was read.
C5_Witness ==
    /\ PitchOf("Midi")
    /\ result.args[1] = 126
    /\ IsSome(result.value)

\* C6: from_tuning(tuning, ref_key) is all or nothing: when
\* tuning.pitch(i - ref_key) is present for every i in 0 .. 126 the table's
\* entry i is that pitch (and note ref_key carries the reference pitch);
\* when one of them is absent the result is absent and no table is made.
C6_FromTuningAllOrNothing ==
    result.op = "MidiTuning::from_tuning" =>
        LET src    == result.args[1]
            refkey == result.args[2]
            whole  == \A i \in Notes : IsSome(Pitch(src, i - refkey))
        IN  IF whole
            THEN /\ IsSome(result.value)
                 /\ tuning = result.value.val
                 /\ tuning.kind = "Midi"
                 /\ Len(tuning.pitches) = 127
                 /\ \A i \in Notes :
                        tuning.pitches[i + 1] = Pitch(src, i - refkey).val
                 /\ tuning.pitches[refkey + 1] = ReferencePitch(src)
            ELSE /\ result.value = None
                 /\ tuning = NoTuning

\* C6 witness: a MidiTuning, absent below its note 0, was sampled around a
\* reference key above 0.
C6_Witness ==
    /\ result.op = "MidiTuning::from_tuning"
    /\ result.args[1].kind = "Midi"
    /\ result.args[2] = DefaultRefKey
    /\ result.value = None

\* C7: MidiTuning::default() is from_tuning(Edo::new(12, Hz(440)), 69):
\* note i holds 440 Hz moved by (i - 69) * 100 cents, so note 69 is 440 Hz
\* and note 81 lies an octave above it.
C7_DefaultIsEdo12 ==
    result.op = "MidiTuning::default" =>
        /\ Some(tuning) = MidiFromTuning(EdoNew(12, A440), 69)
        /\ \A i \in Notes :
               Pitch(tuning, i) = Some(HzAddCents(A440, (i - 69) * 100))
        /\ Pitch(tuning, 69) = Some(A440)
        /\ Pitch(tuning, 81) = Some(HzAddCents(A440, Octave))

\* C7 witness: the default table was built.
C7_Witness ==
    /\ result.op = "MidiTuning::default"
    /\ tuning.kind = "Midi"
    /\ tuning.pitches[82] = A440 + Octave

\* C8: from_pitches(list) is absent exactly when the list is shorter than
\* 127; otherwise its table is the list's first 127 entries, in order.
C8_FromPitches ==
    result.op = "MidiTuning::from_pitches" =>
        LET hzs == result.args[1]
        IN  /\ result.value = None <=> Len(hzs) < 127
            /\ Len(hzs) < 127 => tuning = NoTuning
            /\ Len(hzs) >= 127 =>
                   /\ IsSome(result.value)
                   /\ tuning = result.value.val
                   /\ tuning.kind = "Midi"
                   /\ Len(tuning.pitches) = 127
                   /\ \A i \in 1 .. 127 : tuning.pitches[i] = hzs[i]

\* C8 witness: a list longer than 127, whose later entries differ from
\* those kept, was accepted.
C8_Witness ==
    /\ result.op = "MidiTuning::from_pitches"
    /\ Len(result.args[1]) > 127
    /\ result.args[1][128] # result.args[1][127]
    /\ IsSome(result.value)

\* To the cent, with 440 Hz at A440: 660 Hz, 1320 Hz, 330 Hz and 165 Hz
Hz660 == A440 + 702

Hz1320 == A440 + Octave + 702

Hz330 == A440 + 702 - Octave

Hz165 == A440 + 702 - 2 * Octave

\* C9: pitch of a CyclicTuning is the pattern laid end to end: with
\* q = floor(step / len), r = step - q * len, cum(0) = 0 and
\* cum(k) = steps[k - 1], the offset of pitch(step) from the reference is
\* period * q + cum(r).  For the steps [3:2, 2:1] at 440 Hz, pitch(1) is
\* 660, pitch(3) is 1320, pitch(-1) is 330 and pitch(-3) is 165.
C9_FloorLayout ==
    (PitchOf("Cyclic") /\ Len(tuning.steps) > 0) =>
        LET step   == result.args[1]
            len    == Len(tuning.steps)
            period == tuning.steps[len]
            q      == step \div len
            r      == step - q * len
            cum    == IF r = 0 THEN 0 ELSE tuning.steps[r]
        IN  /\ r \in 0 .. len - 1
            /\ IsSome(result.value)
            /\ Offset(result.value.val) = period * q + cum
            /\ tuning = CyclicFromCents(<<702, Octave>>, A440) =>
                   /\ step = 1 => result.value = Some(Hz660)
                   /\ step = 3 => result.value = Some(Hz1320)
                   /\ step = 0 - 1 => result.value = Some(Hz330)
                   /\ step = 0 - 3 => result.value = Some(Hz165)

\* C9 witness: pitch(-3) of the steps [3:2, 2:1] at 440 Hz was 165 Hz.
C9_Witness ==
    /\ PitchOf("Cyclic")
    /\ tuning = CyclicFromCents(<<702, Octave>>, A440)
    /\ result.args[1] = 0 - 3
    /\ result.value = Some(Hz165)

\* i32 steps at the ends of the range
ExtremeSteps == {I32Min, I32Min + 1, I32Max - 1, I32Max}

\* C10: pitch of a CyclicTuning is total: it returns a pitch for every step
\* list and step and never reads outside the list: when rem # 0 the index
\* used lies in 0 .. len - 1; for the empty list it returns the reference
\* pitch.
C10_CyclicTotal ==
    PitchOf("Cyclic") =>
        LET step == result.args[1]
            len  == Len(tuning.steps)
        IN  /\ IsSome(result.value)
            /\ len = 0 => result.value = Some(tuning.reference)
            /\ len > 0 =>
                   \A s \in {step} \cup ExtremeSteps :
                       TruncRem(s, len) # 0 =>
                           CyclicIndex(len, TruncRem(s, len)) \in 0 .. len - 1

\* C10 witness: a step below the reference, inside a cycle, was asked.
C10_Witness ==
    /\ PitchOf("Cyclic")
    /\ Len(tuning.steps) > 1
    /\ result.args[1] < 0
    /\ TruncRem(result.args[1], Len(tuning.steps)) < 0
    /\ IsSome(result.value)

===========================================================================
